---- MODULE Spec2Model ----
(***************************************************************************)
(* Model of chapter-15_demo_code.py: a single-run script that generates a  *)
(* synthetic series, partitions it, runs eight forecasting strategies in   *)
(* order and plots one curve per strategy.                                 *)
(*                                                                         *)
(* Arrays are modelled as C-ordered tensors (shape + flat data), with      *)
(* numpy's slicing, broadcasting and reshape rules.  Floating point values *)
(* are modelled as integers (fixed point); the dimension constants of the  *)
(* script are scaled down, keeping N_INPUT_STEPS = N_STEPS - N_PREDICTIONS *)
(* as the script defines it.                                               *)
(***************************************************************************)
EXTENDS Integers, Sequences, FiniteSets, TLC

(***************************************************************************)
(* Dimension constants of the script (lines 6-15), scaled down from        *)
(* N_STEPS = 200, INITIAL_BATCH_SIZE = 1350, N_PREDICTIONS = 50,           *)
(* TRAINING_BATCH_SIZE = 900 and VALIDATION_BATCH_SIZE = 300.  N_FEATURES  *)
(* keeps its value.  TESTING_BATCH_SIZE is never read by the script: the   *)
(* test rows are the rows left after the second partition index.           *)
(***************************************************************************)
N_STEPS == 5

INITIAL_BATCH_SIZE == 4

N_PREDICTIONS == 2

N_FEATURES == 2

TRAINING_BATCH_SIZE == 1

VALIDATION_BATCH_SIZE == 2

N_INPUT_STEPS == N_STEPS - N_PREDICTIONS

(***************************************************************************)
(* Bounds of the model.                                                    *)
(***************************************************************************)
\* number of seeds the random generator may start from
NumSeeds == 3

\* fixed-point resolution of a uniform draw in [0, 1)
RandLevels == 4

\* largest batch size / step count passed to generate_time_series on its own
MaxGenBatch == 3

MaxGenSteps == 4

\* longest series handed to get_sequence_to_sequence_data on its own
MaxWinSteps == 6

\* number of distinct contents np.empty may hand out
NumGarbage == 2

\* number of levels a trained model's outputs are drawn from
NumPredLevels == 2

(***************************************************************************)
(* Tensors: [err, shape, data], data in C order, indices 0-based.          *)
(***************************************************************************)
RECURSIVE Prod(_)
Prod(s) == IF s = <<>> THEN 1 ELSE Head(s) * Prod(Tail(s))

\* the C-order stride of every axis
RECURSIVE Strides(_)
Strides(shape) ==
    IF shape = <<>> THEN <<>> ELSE <<Prod(Tail(shape))>> \o Strides(Tail(shape))

RECURSIVE OffsetUpTo(_, _, _)
OffsetUpTo(shape, idx, k) ==
    IF k = 0 THEN 0 ELSE OffsetUpTo(shape, idx, k - 1) * shape[k] + idx[k]

\* flat 0-based position of a multi-index
Offset(shape, idx) == OffsetUpTo(shape, idx, Len(shape))

\* multi-index of a flat 0-based position, given the strides
IndexWith(shape, strides, p) ==
    [k \in 1..Len(shape) |-> (p \div strides[k]) % shape[k]]

Index(shape, p) == IndexWith(shape, Strides(shape), p)

Error == [err |-> TRUE, shape |-> <<>>, data |-> <<>>]

\* the tensor with entry F(idx) at every multi-index idx (data kept as a sequence)
MkTensor(shape, F(_)) ==
    LET strides == Strides(shape)
    IN [err |-> FALSE, shape |-> shape,
        data |-> [p \in 1..Prod(shape) |-> F(IndexWith(shape, strides, p - 1))] \o <<>>]

At(T, idx) == T.data[1 + Offset(T.shape, idx)]

\* np.empty / np.zeros with every entry set to fill
Full(shape, fill) == MkTensor(shape, LAMBDA idx : fill)

(***************************************************************************)
(* Python indexing.  An axis is a slice start:stop (<<>> for an omitted    *)
(* bound) or an integer index.                                             *)
(***************************************************************************)
Sl(start, stop) == [kind |-> "slice", a |-> start, b |-> stop]

Ix(i) == [kind |-> "index", a |-> <<i>>, b |-> <<>>]

All == Sl(<<>>, <<>>)

Clamp(i, d) ==
    IF i < 0 THEN (IF i + d < 0 THEN 0 ELSE i + d) ELSE (IF i > d THEN d ELSE i)

SliceLo(ax, d) == IF ax.a = <<>> THEN 0 ELSE Clamp(ax.a[1], d)

SliceHi(ax, d) == IF ax.b = <<>> THEN d ELSE Clamp(ax.b[1], d)

SliceLen(ax, d) ==
    IF SliceHi(ax, d) > SliceLo(ax, d) THEN SliceHi(ax, d) - SliceLo(ax, d) ELSE 0

\* an integer index, negative counting from the end
IndexPos(ax, d) == IF ax.a[1] < 0 THEN ax.a[1] + d ELSE ax.a[1]

\* axes padded with full slices up to the rank of the array
PadAxes(axes, rank) == axes \o [k \in 1..(rank - Len(axes)) |-> All]

RECURSIVE SliceAxesFrom(_, _)
SliceAxesFrom(axes, k) ==
    IF k > Len(axes) THEN <<>>
    ELSE IF axes[k].kind = "slice" THEN <<k>> \o SliceAxesFrom(axes, k + 1)
    ELSE SliceAxesFrom(axes, k + 1)

\* the axes of the array that survive the indexing, in order
SliceAxes(axes) == SliceAxesFrom(axes, 1)

IndexInRange(shape, axes) ==
    \A k \in 1..Len(axes) :
        axes[k].kind = "index" =>
            (IndexPos(axes[k], shape[k]) >= 0 /\ IndexPos(axes[k], shape[k]) < shape[k])

\* first position each axis selects
AxesLo(shape, axes) ==
    [k \in 1..Len(shape) |->
        IF axes[k].kind = "index" THEN IndexPos(axes[k], shape[k])
        ELSE SliceLo(axes[k], shape[k])] \o <<>>

\* number of positions each axis selects
AxesLen(shape, axes) ==
    [k \in 1..Len(shape) |->
        IF axes[k].kind = "index" THEN 1 ELSE SliceLen(axes[k], shape[k])] \o <<>>

RegionShape(shape, axes) ==
    LET keep == SliceAxes(axes)
    IN [j \in 1..Len(keep) |-> SliceLen(axes[keep[j]], shape[keep[j]])] \o <<>>

\* for every axis, its place among the axes that survive (0 for an integer index)
RECURSIVE RegionPlacesFrom(_, _, _)
RegionPlacesFrom(axes, k, n) ==
    IF k > Len(axes) THEN <<>>
    ELSE IF axes[k].kind = "slice"
    THEN <<n + 1>> \o RegionPlacesFrom(axes, k + 1, n + 1)
    ELSE <<0>> \o RegionPlacesFrom(axes, k + 1, n)

\* T[axes]
GetItem(T, axs) ==
    IF T.err \/ Len(axs) > Len(T.shape) THEN Error
    ELSE LET axes == PadAxes(axs, Len(T.shape))
         IN IF ~IndexInRange(T.shape, axes) THEN Error
            ELSE LET lo == AxesLo(T.shape, axes)
                     place == RegionPlacesFrom(axes, 1, 0)
                 IN MkTensor(RegionShape(T.shape, axes),
                        LAMBDA ridx :
                            At(T, [k \in 1..Len(lo) |->
                                      IF place[k] = 0 THEN lo[k]
                                      ELSE lo[k] + ridx[place[k]]]))

\* numpy's rule for assigning an array of shape s into a region of shape r
Broadcastable(s, r) ==
    /\ Len(s) <= Len(r)
    /\ \A j \in 1..Len(s) : s[j] = r[j + Len(r) - Len(s)] \/ s[j] = 1

\* T[axes] = S, as a new value of T
SetItem(T, axs, S) ==
    IF T.err \/ S.err \/ Len(axs) > Len(T.shape) THEN Error
    ELSE LET axes == PadAxes(axs, Len(T.shape))
             r == RegionShape(T.shape, axes)
         IN IF ~IndexInRange(T.shape, axes) \/ ~Broadcastable(S.shape, r) THEN Error
            ELSE LET lo == AxesLo(T.shape, axes)
                     len == AxesLen(T.shape, axes)
                     keep == SliceAxes(axes)
                     s == S.shape
                     shift == Len(r) - Len(s)
                 IN MkTensor(T.shape,
                        LAMBDA idx :
                            IF \A k \in 1..Len(lo) :
                                   idx[k] >= lo[k] /\ idx[k] < lo[k] + len[k]
                            THEN At(S, [j \in 1..Len(s) |->
                                           IF s[j] = 1 THEN 0
                                           ELSE idx[keep[j + shift]] - lo[keep[j + shift]]])
                            ELSE At(T, idx))

\* ndarray.reshape: the same C-ordered data under a new shape
Reshape(T, shape) ==
    IF T.err \/ Prod(shape) # Prod(T.shape) THEN Error
    ELSE [err |-> FALSE, shape |-> shape, data |-> T.data]

\* np.repeat(T, repeats, axis), axis counted from 1
Repeat(T, repeats, axis) ==
    IF T.err THEN Error
    ELSE MkTensor([T.shape EXCEPT ![axis] = @ * repeats],
                  LAMBDA idx : At(T, [idx EXCEPT ![axis] = @ \div repeats]))

\* np.concatenate of count copies of T along axis (counted from 1)
ConcatCopies(T, count, axis) ==
    IF T.err \/ count = 0 THEN Error
    ELSE MkTensor([T.shape EXCEPT ![axis] = @ * count],
                  LAMBDA idx : At(T, [idx EXCEPT ![axis] = @ % T.shape[axis]]))

(***************************************************************************)
(* State.                                                                  *)
(*   pc          position of the script (or of the function under study)   *)
(*   mem         the array buffers other names alias: series and           *)
(*               full_sequence                                             *)
(*   x_train ..  views (base buffer + slices) taken at lines 305-307       *)
(*   legend      Plotter.legend                                            *)
(*   pred        the prediction a strategy returned                        *)
(*   printed     the loss line last printed                                *)
(*   Y, step     locals of get_sequence_to_sequence_data /                 *)
(*               rnn_iterative_forecasting                                 *)
(*   model_out   what the trained model predicts for x_valid               *)
(*   history     the last training history                                 *)
(*   args, result  arguments and results of a function studied on its own  *)
(*   window      the view rnn_iterative_forecasting last handed to predict *)
(*   data_out    what predict returned for it (line 174)                   *)
(*   assigned    the steps of full_sequence assigned since np.zeros        *)
(***************************************************************************)
VARIABLES pc, mem, x_train, y_train, x_valid, y_valid, x_test, y_test,
          legend, pred, printed, Y, step, model_out, history, args, result,
          window, data_out, assigned

viewVars == <<x_train, y_train, x_valid, y_valid, x_test, y_test>>

plotVars == <<legend, printed>>

fitVars == <<model_out, history>>

iterVars == <<window, data_out, assigned>>

vars == <<pc, mem, viewVars, plotVars, pred, Y, step, fitVars, args, result, iterVars>>

\* a name not bound yet
Unset == [err |-> FALSE, shape |-> <<0>>, data |-> <<>>]

NoView == [base |-> "none", axes |-> <<>>]

NoHistory == [val_loss |-> <<0, 1>>, val_last_time_step_mse |-> <<0, 1>>]

Seeds == 0..(NumSeeds - 1)

(***************************************************************************)
(* generate_time_series (lines 50-57).  Uniform draws are fixed-point      *)
(* numbers k / RandLevels taken from a stream determined by the seed.      *)
(***************************************************************************)
\* draw number pos of the stream started from seed
Rand(seed, pos) ==
    ((seed + 1) * (pos * pos + 3) + 7 * pos + (pos \div 3) + seed * seed) % RandLevels

\* np.random.rand(*shape), consuming the stream from position start
RandTensor(seed, start, shape) ==
    MkTensor(shape, LAMBDA idx : Rand(seed, start + Offset(shape, idx)))

\* np.linspace(0, 1, n_steps)[t], in units of 1 / RandLevels
Linspace(n_steps, t) == IF n_steps = 1 THEN 0 ELSE (t * RandLevels) \div (n_steps - 1)

\* integer stand-in for np.sin: period 6, values -1, 0, 1
Sin(x) == LET r == x % 6 IN IF r \in {1, 2} THEN 1 ELSE IF r \in {4, 5} THEN 0 - 1 ELSE 0

\* astype(np.float32): rounds to the coarser grid
Float32(v) == 2 * (v \div 2)

AsType32(T) ==
    IF T.err THEN Error
    ELSE [err |-> FALSE, shape |-> T.shape,
          data |-> [p \in 1..Len(T.data) |-> Float32(T.data[p])]]

\* line 56 with the feature axis at the wrong place (np.repeat(..., axis=1))
DuplicateFeaturesAxis1(series2d, batch_size, n_steps) ==
    Repeat(Reshape(series2d, <<batch_size, n_steps, 1>>), N_FEATURES, 2)

\* line 56: np.repeat(series.reshape(batch_size, n_steps, 1), N_FEATURES, axis=2)
DuplicateFeatures(series2d, batch_size, n_steps) ==
    Repeat(Reshape(series2d, <<batch_size, n_steps, 1>>), N_FEATURES, 3)

generate_time_series(seed, batch_size, n_steps) ==
    LET draws == RandTensor(seed, 0, <<4, batch_size, 1>>)
        freq1(b) == At(draws, <<0, b, 0>>)
        freq2(b) == At(draws, <<1, b, 0>>)
        offsets1(b) == At(draws, <<2, b, 0>>)
        offsets2(b) == At(draws, <<3, b, 0>>)
        time(t) == Linspace(n_steps, t)
        noise == RandTensor(seed, 4 * batch_size, <<batch_size, n_steps>>)
        \* amplitudes 0.5, 0.2 and 0.1 in units of 1 / 10
        series2d ==
            MkTensor(<<batch_size, n_steps>>,
                LAMBDA i :
                      5 * Sin((time(i[2]) - offsets1(i[1])) * (freq1(i[1]) + 1))
                    + 2 * Sin((time(i[2]) - offsets2(i[1])) * 2 * (freq2(i[1]) + 1))
                    + (At(noise, i) - RandLevels \div 2))
    IN AsType32(DuplicateFeatures(series2d, batch_size, n_steps))

(***************************************************************************)
(* Values every specification starts the script's names from.              *)
(***************************************************************************)
InitScript ==
    /\ mem = [series |-> Unset, full_sequence |-> Unset]
    /\ x_train = NoView /\ y_train = NoView
    /\ x_valid = NoView /\ y_valid = NoView
    /\ x_test = NoView /\ y_test = NoView
    /\ legend = <<>>
    /\ pred = Unset
    /\ printed = <<>>
    /\ Y = Unset
    /\ step = 0
    /\ model_out = Unset
    /\ history = NoHistory
    /\ window = NoView
    /\ data_out = Unset
    /\ assigned = {}

(***************************************************************************)
(* SpecGen: generate_time_series on its own, for every batch size and step *)
(* count up to the bounds.                                                 *)
(***************************************************************************)
InitGen ==
    /\ InitScript
    /\ pc = "gen_call"
    /\ args \in [batch_size : 0..MaxGenBatch, n_steps : 0..MaxGenSteps, seed : Seeds]
    /\ result = <<>>

GenerateCall ==
    /\ pc = "gen_call"
    /\ result' = <<generate_time_series(args.seed, args.batch_size, args.n_steps)>>
    /\ pc' = "gen_done"
    /\ UNCHANGED <<mem, viewVars, plotVars, pred, Y, step, fitVars, args, iterVars>>

NextGen == GenerateCall

SpecGen == InitGen /\ [][NextGen]_vars

\* C5: generate_time_series returns a tensor of shape (batch_size, n_steps, 2)
\* whose two feature columns are equal at every row and step.
C5_ShapeAndDuplicatedFeatures ==
    pc = "gen_done" =>
        /\ ~result[1].err
        /\ result[1].shape = <<args.batch_size, args.n_steps, 2>>
        /\ \A b \in 0..(args.batch_size - 1), t \in 0..(args.n_steps - 1) :
               At(result[1], <<b, t, 0>>) = At(result[1], <<b, t, 1>>)

\* a generated series with several rows and steps whose values vary
C5_Witness ==
    /\ pc = "gen_done"
    /\ args.batch_size >= 2 /\ args.n_steps >= 3
    /\ result[1].shape = <<args.batch_size, args.n_steps, 2>>
    /\ \E t \in 1..(args.n_steps - 1) :
           At(result[1], <<0, t, 0>>) # At(result[1], <<0, 0, 0>>)
    /\ \E t \in 0..(args.n_steps - 1) :
           At(result[1], <<0, t, 1>>) # At(result[1], <<1, t, 1>>)

(***************************************************************************)
(* get_sequence_to_sequence_data (lines 77-88).                            *)
(***************************************************************************)
\* what np.empty may contain: values no series entry takes
Garbage == {100 + i : i \in 0..(NumGarbage - 1)}

\* line 83: np.empty((INITIAL_BATCH_SIZE, N_INPUT_STEPS, N_PREDICTIONS, N_FEATURES))
EmptyY(garbage) ==
    Full(<<INITIAL_BATCH_SIZE, N_INPUT_STEPS, N_PREDICTIONS, N_FEATURES>>, garbage)

\* the loop stopping one step early (range(1, N_PREDICTIONS))
LastStepAheadShort == N_PREDICTIONS - 1

\* line 85: range(1, N_PREDICTIONS + 1) ends at N_PREDICTIONS
LastStepAhead == N_PREDICTIONS

\* line 86 reading the series one step too early
AssignStepAheadOffByOne(Yt, series, step_ahead) ==
    SetItem(Yt, <<All, All, Ix(step_ahead - 1), All>>,
            GetItem(series,
                    <<All, Sl(<<step_ahead - 1>>, <<step_ahead - 1 + N_INPUT_STEPS>>), All>>))

\* line 86 writing only as many steps as the slice has
AssignStepAheadTruncating(Yt, series, step_ahead) ==
    LET src == GetItem(series,
                       <<All, Sl(<<step_ahead>>, <<step_ahead + N_INPUT_STEPS>>), All>>)
    IN SetItem(Yt, <<All, Sl(<<>>, <<src.shape[2]>>), Ix(step_ahead - 1), All>>, src)

\* line 86: Y[:,:,step_ahead-1,:] = series[:,step_ahead:step_ahead+N_INPUT_STEPS,:]
AssignStepAhead(Yt, series, step_ahead) ==
    SetItem(Yt, <<All, All, Ix(step_ahead - 1), All>>,
            GetItem(series,
                    <<All, Sl(<<step_ahead>>, <<step_ahead + N_INPUT_STEPS>>), All>>))

\* line 87: Y.reshape(INITIAL_BATCH_SIZE, N_INPUT_STEPS, N_PREDICTIONS * N_FEATURES)
FlattenY(Yt) ==
    Reshape(Yt, <<INITIAL_BATCH_SIZE, N_INPUT_STEPS, N_PREDICTIONS * N_FEATURES>>)

RECURSIVE FillFrom(_, _, _)
FillFrom(Yt, series, step_ahead) ==
    IF step_ahead > LastStepAhead THEN Yt
    ELSE FillFrom(AssignStepAhead(Yt, series, step_ahead), series, step_ahead + 1)

\* the whole call; an error raised by line 86 is the result
get_sequence_to_sequence_data(series, garbage) ==
    FlattenY(FillFrom(EmptyY(garbage), series, 1))

(***************************************************************************)
(* SpecWin: get_sequence_to_sequence_data on its own, statement by         *)
(* statement, called twice on one series of any length up to MaxWinSteps.  *)
(***************************************************************************)
InitWin ==
    /\ pc = "win_call"
    /\ args \in [n_steps : 0..MaxWinSteps, seed : Seeds]
    /\ mem = [series |-> generate_time_series(args.seed, INITIAL_BATCH_SIZE, args.n_steps),
              full_sequence |-> Unset]
    /\ x_train = NoView /\ y_train = NoView
    /\ x_valid = NoView /\ y_valid = NoView
    /\ x_test = NoView /\ y_test = NoView
    /\ legend = <<>> /\ pred = Unset /\ printed = <<>>
    /\ Y = Unset /\ step = 0
    /\ model_out = Unset /\ history = NoHistory
    /\ window = NoView /\ data_out = Unset /\ assigned = {}
    /\ result = <<>>

winFrame == <<mem, viewVars, plotVars, pred, fitVars, args, iterVars>>

\* line 83
WinAlloc ==
    /\ pc = "win_call"
    /\ \E garbage \in Garbage : Y' = EmptyY(garbage)
    /\ step' = 1
    /\ pc' = IF 1 > LastStepAhead THEN "win_filled" ELSE "win_loop"
    /\ UNCHANGED <<winFrame, result>>

\* lines 85-86, one iteration; a failed assignment raises
WinStep ==
    /\ pc = "win_loop"
    /\ LET Yn == AssignStepAhead(Y, mem.series, step)
       IN IF Yn.err
          THEN /\ pc' = "win_error"
               /\ UNCHANGED <<Y, step>>
          ELSE /\ Y' = Yn
               /\ step' = step + 1
               /\ pc' = IF step = LastStepAhead THEN "win_filled" ELSE "win_loop"
    /\ UNCHANGED <<winFrame, result>>

\* lines 87-88
WinReturn ==
    /\ pc = "win_filled"
    /\ Y' = FlattenY(Y)
    /\ result' = Append(result, Y')
    /\ pc' = IF Len(result) = 0 THEN "win_call" ELSE "win_done"
    /\ UNCHANGED <<winFrame, step>>

NextWin == WinAlloc \/ WinStep \/ WinReturn

SpecWin == InitWin /\ [][NextWin]_vars

\* C1: when the series has N_INPUT_STEPS + N_PREDICTIONS steps, the filled and
\* not yet flattened target has series[row, t+k, feature] at (row, t, k-1, feature)
\* for every row, t in [0, n), k in [1, m] and feature, and has no other entry.
C1_TargetIsShiftedSeries ==
    (pc = "win_filled" /\ args.n_steps = N_INPUT_STEPS + N_PREDICTIONS) =>
        /\ ~Y.err
        /\ Y.shape = <<INITIAL_BATCH_SIZE, N_INPUT_STEPS, N_PREDICTIONS, N_FEATURES>>
        /\ \A row \in 0..(INITIAL_BATCH_SIZE - 1), t \in 0..(N_INPUT_STEPS - 1),
              k \in 1..N_PREDICTIONS, f \in 0..(N_FEATURES - 1) :
               At(Y, <<row, t, k - 1, f>>) = At(mem.series, <<row, t + k, f>>)

\* the loop has filled the target of a series of n + m steps whose steps differ
C1_Witness ==
    /\ pc = "win_filled"
    /\ args.n_steps = N_INPUT_STEPS + N_PREDICTIONS
    /\ ~Y.err
    /\ At(Y, <<0, N_INPUT_STEPS - 1, N_PREDICTIONS - 1, 0>>)
           = At(mem.series, <<0, N_STEPS - 1, 0>>)
    /\ \E t \in 0..(N_STEPS - 2) :
           At(mem.series, <<0, t, 0>>) # At(mem.series, <<0, t + 1, 0>>)

\* C2: on a series shorter than N_INPUT_STEPS + N_PREDICTIONS steps the call
\* never reaches its return: it is before the loop, in one of the loop's
\* N_PREDICTIONS iterations (each of which moves on or raises), or has raised.
C2_ShortSeriesRaises ==
    args.n_steps < N_INPUT_STEPS + N_PREDICTIONS =>
        /\ result = <<>>
        /\ pc \in {"win_call", "win_loop", "win_error"}
        /\ (pc = "win_loop" => step \in 1..N_PREDICTIONS)

\* a short series on which an early iteration was assigned (a one-step slice is
\* broadcast over the input steps) and a later one raised
C2_Witness ==
    /\ pc = "win_error"
    /\ args.n_steps < N_INPUT_STEPS + N_PREDICTIONS
    /\ step > 1

\* C10: two calls on the same series return equal tensors, whatever np.empty
\* handed out in each call.
C10_SecondCallEqualsFirst ==
    Len(result) = 2 => (~result[1].err /\ result[1] = result[2])

\* both calls have returned a flattened target
C10_Witness ==
    /\ pc = "win_done"
    /\ Len(result) = 2
    /\ result[2].shape = <<INITIAL_BATCH_SIZE, N_INPUT_STEPS, N_PREDICTIONS * N_FEATURES>>
    /\ args.n_steps = N_STEPS

(***************************************************************************)
(* Views.  Basic slicing returns a view: a base buffer and the slices into *)
(* it.  Reading goes through to the buffer, and so does writing.           *)
(***************************************************************************)
View(base, axes) == [base |-> base, axes |-> axes]

Read(m, view) == GetItem(m[view.base], view.axes)

\* the axes of the base buffer that writing view[waxes] touches
ComposeAxes(shape, vaxes, waxes) ==
    LET va == PadAxes(vaxes, Len(shape))
        wa == PadAxes(waxes, Len(shape))
    IN [k \in 1..Len(shape) |->
            LET vlo == SliceLo(va[k], shape[k])
                vlen == SliceLen(va[k], shape[k])
            IN IF wa[k].kind = "index"
               THEN Ix(vlo + IndexPos(wa[k], vlen))
               ELSE Sl(<<vlo + SliceLo(wa[k], vlen)>>, <<vlo + SliceHi(wa[k], vlen)>>)]

ViewIndexInRange(shape, vaxes, waxes) ==
    LET va == PadAxes(vaxes, Len(shape))
        wa == PadAxes(waxes, Len(shape))
    IN \A k \in 1..Len(shape) :
           wa[k].kind = "index" =>
               LET vlen == SliceLen(va[k], shape[k])
               IN IndexPos(wa[k], vlen) >= 0 /\ IndexPos(wa[k], vlen) < vlen

\* view[waxes] = S: the new content of the view's base buffer
Store(m, view, waxes, S) ==
    LET B == m[view.base]
    IN IF B.err \/ ~ViewIndexInRange(B.shape, view.axes, waxes) THEN Error
       ELSE SetItem(B, ComposeAxes(B.shape, view.axes, waxes), S)

(***************************************************************************)
(* Losses.  A mean is kept exact as <<sum, count>>.                        *)
(***************************************************************************)
RECURSIVE SumSqUpTo(_, _, _)
SumSqUpTo(a, b, p) ==
    IF p = 0 THEN 0 ELSE (a[p] - b[p]) * (a[p] - b[p]) + SumSqUpTo(a, b, p - 1)

\* the mean of keras mean_squared_error(A, B) over all entries
MeanSquaredError(A, B) == <<SumSqUpTo(A.data, B.data, Len(A.data)), Len(A.data)>>

\* last_time_step_mse (lines 59-62), averaged over the batch
last_time_step_mse(y_true, y_pred) ==
    MeanSquaredError(GetItem(y_true, <<All, Ix(0 - 1)>>), GetItem(y_pred, <<All, Ix(0 - 1)>>))

(***************************************************************************)
(* Keras models: a list of layers; only the shape of what a model returns  *)
(* is determined, its values are whatever training made them.              *)
(***************************************************************************)
Recurrent(kind, units, return_sequences) ==
    [type |-> kind, units |-> units, seq |-> return_sequences]

Dense(units) == [type |-> "Dense", units |-> units, seq |-> FALSE]

Flatten == [type |-> "Flatten", units |-> 0, seq |-> FALSE]

Conv1D(filters) == [type |-> "Conv1D", units |-> filters, seq |-> TRUE]

\* the shape a layer returns for an input of shape s; <<>> when it rejects it
LayerShape(layer, s) ==
    IF s = <<>> THEN <<>>
    ELSE IF layer.type \in {"SimpleRNN", "LSTM", "GRU"}
    THEN IF Len(s) # 3 THEN <<>>
         ELSE IF layer.seq THEN <<s[1], s[2], layer.units>> ELSE <<s[1], layer.units>>
    ELSE IF layer.type = "Dense"
    THEN IF Len(s) < 2 THEN <<>> ELSE [s EXCEPT ![Len(s)] = layer.units]
    ELSE IF layer.type = "Flatten"
    THEN <<s[1], Prod(Tail(s))>>
    ELSE \* Conv1D with causal padding keeps the number of steps
         IF Len(s) # 3 THEN <<>> ELSE <<s[1], s[2], layer.units>>

RECURSIVE OutputShape(_, _)
OutputShape(layers, s) ==
    IF layers = <<>> THEN s
    ELSE OutputShape(Tail(layers), LayerShape(Head(layers), s))

\* get_sequence_to_vector_rnn_model (lines 64-75)
get_sequence_to_vector_rnn_model(output_shape) ==
    <<Recurrent("SimpleRNN", 20, TRUE), Recurrent("SimpleRNN", 20, FALSE),
      Dense(output_shape)>>

\* get_sequence_to_sequence_rnn_model (lines 90-103)
get_sequence_to_sequence_rnn_model(output_shape, layer_type) ==
    <<Recurrent(layer_type, 20, TRUE), Recurrent(layer_type, 20, TRUE),
      Dense(output_shape)>>

\* line 289 with one filter per predicted step only
cnn_model_one_feature ==
    [i \in 1..9 |-> IF i <= 8 THEN Conv1D(N_PREDICTIONS * 2) ELSE Conv1D(N_PREDICTIONS)]

\* lines 286-290: eight dilated causal convolutions and a 1x1 convolution
cnn_model ==
    [i \in 1..9 |-> IF i <= 8 THEN Conv1D(N_PREDICTIONS * 2)
                     ELSE Conv1D(N_PREDICTIONS * N_FEATURES)]

\* lines 140-142
linear_model == <<Flatten, Dense(N_PREDICTIONS * N_FEATURES)>>

PredLevels == 0..(NumPredLevels - 1)

\* the outputs considered: one level everywhere, or two different levels
PredPairs == {<<a, a>> : a \in PredLevels} \cup {<<0, 1>>}

\* the outputs of shape out considered: level ab[1] at the last position of the
\* second axis, level ab[2] elsewhere
PredictionsOfShape(out) ==
    {MkTensor(out, LAMBDA idx : IF idx[2] = out[2] - 1 THEN ab[1] ELSE ab[2]) :
         ab \in PredPairs}

\* what a trained model may return for an input of shape s
Predictions(layers, s) ==
    LET out == OutputShape(layers, s)
    IN IF out = <<>> THEN {Error} ELSE PredictionsOfShape(out)

\* model.fit accepts the targets when they have the shape of the model's output
FitAccepts(layers, x, y) ==
    /\ ~x.err /\ ~y.err
    /\ OutputShape(layers, x.shape) # <<>>
    /\ OutputShape(layers, x.shape) = y.shape

(***************************************************************************)
(* The script (lines 302-352).                                             *)
(***************************************************************************)
\* line 302 with the second index not accumulated
indicesNotAccumulated == <<TRAINING_BATCH_SIZE, VALIDATION_BATCH_SIZE>>

\* line 302: indices = (TRAINING_BATCH_SIZE, TRAINING_BATCH_SIZE+VALIDATION_BATCH_SIZE)
indices == <<TRAINING_BATCH_SIZE, TRAINING_BATCH_SIZE + VALIDATION_BATCH_SIZE>>

\* Plotter.TARGET_FEATURE (line 30)
TARGET_FEATURE == 0

\* lines 39-40: the curve of row batch_id
plot_data(y_data, batch_size, batch_id) ==
    GetItem(Reshape(GetItem(y_data, <<All, All, Ix(TARGET_FEATURE)>>),
                    <<batch_size, N_PREDICTIONS>>),
            <<Ix(batch_id)>>)

\* line 42 putting the new label first
LegendPrepend(names, name) == <<name>> \o names

\* line 42: self.legend.append(name)
LegendAppend(names, name) == Append(names, name)

\* the plot calls of the script: position, label, position that follows
PlotCalls ==
    << [at |-> "plot_target",    label |-> "target data",              next |-> "naive"],
       [at |-> "plot_naive",     label |-> "naive prediction",         next |-> "linear"],
       [at |-> "plot_linear",    label |-> "linear prediction",        next |-> "iterative"],
       [at |-> "plot_iterative", label |-> "iterative prediction",     next |-> "vector"],
       [at |-> "plot_vector",    label |-> "vector prediction",        next |-> "sequence"],
       [at |-> "plot_sequence",  label |-> "sequence prediction",      next |-> "lstm"],
       [at |-> "plot_lstm",      label |-> "ltsm sequence prediction", next |-> "gru"],
       [at |-> "plot_gru",       label |-> "gru sequence prediction",  next |-> "cnn"],
       [at |-> "plot_cnn",       label |-> "cnn sequence prediction",  next |-> "show"] >>

PlotPositions == {PlotCalls[i].at : i \in 1..Len(PlotCalls)}

PlotCallAt(p) == PlotCalls[CHOOSE i \in 1..Len(PlotCalls) : PlotCalls[i].at = p]

Init ==
    /\ InitScript
    /\ pc = "generate"
    /\ args = <<>>
    /\ result = <<>>

\* an uncaught exception ends the run
Raise ==
    /\ pc' = "error"
    /\ UNCHANGED <<mem, viewVars, plotVars, pred, Y, step, fitVars, args, result, iterVars>>

\* line 304
Generate ==
    /\ pc = "generate"
    /\ \E seed \in Seeds :
           mem' = [mem EXCEPT !.series =
                       generate_time_series(seed, INITIAL_BATCH_SIZE, N_STEPS)]
    /\ pc' = "partition"
    /\ UNCHANGED <<viewVars, plotVars, pred, Y, step, fitVars, args, result, iterVars>>

\* lines 305-307
Partition ==
    /\ pc = "partition"
    /\ x_train' = View("series", <<Sl(<<>>, <<indices[1]>>), Sl(<<>>, <<N_INPUT_STEPS>>)>>)
    /\ y_train' = View("series", <<Sl(<<>>, <<indices[1]>>), Sl(<<-N_PREDICTIONS>>, <<>>)>>)
    /\ x_valid' = View("series", <<Sl(<<indices[1]>>, <<indices[2]>>),
                                   Sl(<<>>, <<N_INPUT_STEPS>>)>>)
    /\ y_valid' = View("series", <<Sl(<<indices[1]>>, <<indices[2]>>),
                                   Sl(<<-N_PREDICTIONS>>, <<>>)>>)
    /\ x_test' = View("series", <<Sl(<<indices[2]>>, <<>>), Sl(<<>>, <<N_INPUT_STEPS>>)>>)
    /\ y_test' = View("series", <<Sl(<<indices[2]>>, <<>>), Sl(<<-N_PREDICTIONS>>, <<>>)>>)
    /\ pc' = "plot_target"
    /\ UNCHANGED <<mem, plotVars, pred, Y, step, fitVars, args, result, iterVars>>

\* Plotter.plot (lines 32-42) at lines 309, 315, 320, 324, 329, 334, 341, 346, 351;
\* line 309 follows the construction of the plotter (line 308, empty legend)
Plot ==
    /\ pc \in PlotPositions
    /\ LET call == PlotCallAt(pc)
           y_data == IF pc = "plot_target" THEN Read(mem, y_valid) ELSE pred
           names == IF pc = "plot_target" THEN <<>> ELSE legend
       IN IF y_data.err \/ Len(y_data.shape) # 3
             \/ plot_data(y_data, VALIDATION_BATCH_SIZE, 0).err
          THEN Raise
          ELSE /\ legend' = LegendAppend(names, call.label)
               /\ pc' = call.next
               /\ UNCHANGED <<mem, viewVars, printed, pred, Y, step, fitVars, args, result, iterVars>>

\* line 122 repeating the first input step instead of the last
naive_prediction_first_step(xv) ==
    ConcatCopies(Reshape(GetItem(xv, <<All, Ix(0)>>),
                         <<VALIDATION_BATCH_SIZE, 1, N_FEATURES>>),
                 N_PREDICTIONS, 2)

\* line 122: N_PREDICTIONS copies of x_valid[:,-1] as (batch, 1, features), joined
\* along axis 1
naive_prediction(xv) ==
    ConcatCopies(Reshape(GetItem(xv, <<All, Ix(-1)>>),
                         <<VALIDATION_BATCH_SIZE, 1, N_FEATURES>>),
                 N_PREDICTIONS, 2)

\* naive_forecasting (lines 113-123) and lines 313-314
Naive ==
    /\ pc = "naive"
    /\ LET xv == Read(mem, x_valid)
           yv == Read(mem, y_valid)
           y_pred == naive_prediction(xv)
       IN IF y_pred.err \/ yv.err \/ y_pred.shape # yv.shape
          THEN Raise
          ELSE /\ pred' = y_pred
               /\ printed' = <<"naive forecasting loss: ", MeanSquaredError(yv, y_pred)>>
               /\ pc' = "plot_naive"
               /\ UNCHANGED <<mem, viewVars, legend, Y, step, fitVars, args, result, iterVars>>

\* linear_regression_forecasting (lines 125-147) and lines 317-319
Linear ==
    /\ pc = "linear"
    /\ LET xt == Read(mem, x_train)
           xv == Read(mem, x_valid)
           yt == Reshape(Read(mem, y_train),
                         <<TRAINING_BATCH_SIZE, N_PREDICTIONS * N_FEATURES>>)
           yv == Reshape(Read(mem, y_valid),
                         <<VALIDATION_BATCH_SIZE, N_PREDICTIONS * N_FEATURES>>)
       IN IF \/ ~FitAccepts(linear_model, xt, yt)
             \/ ~FitAccepts(linear_model, xv, yv)
             \/ Tail(xt.shape) # <<N_INPUT_STEPS, N_FEATURES>>
          THEN Raise
          ELSE \E y_hat \in Predictions(linear_model, xv.shape) :
                   LET y_pred == Reshape(y_hat, <<VALIDATION_BATCH_SIZE, N_PREDICTIONS,
                                                  N_FEATURES>>)
                   IN IF y_pred.err
                      THEN Raise
                      ELSE /\ model_out' = y_hat
                           /\ history' = [val_loss |-> MeanSquaredError(yv, y_hat)]
                           /\ pred' = y_pred
                           /\ printed' = <<"linear regression forecasting loss: ",
                                           MeanSquaredError(yv, y_hat)>>
                           /\ pc' = "plot_linear"
                           /\ UNCHANGED <<mem, viewVars, legend, Y, step, args, result, iterVars>>

\* line 170 working in place on the validation rows of the series
full_sequence_in_place == View("series", <<Sl(<<indices[1]>>, <<indices[2]>>)>>)

\* line 170: full_sequence names a fresh buffer made by np.zeros
full_sequence == View("full_sequence", <<>>)

\* the model of rnn_iterative_forecasting (line 167)
iterative_model == get_sequence_to_vector_rnn_model(N_FEATURES)

\* the steps (second axis) of the working sequence that an axis selects
StepsOf(ax) ==
    IF ax.kind = "index" THEN {IndexPos(ax, N_STEPS)}
    ELSE {t \in 0..(N_STEPS - 1) : t >= SliceLo(ax, N_STEPS) /\ t < SliceHi(ax, N_STEPS)}

\* line 171: the steps :N_INPUT_STEPS that receive x_valid
InputSteps == Sl(<<>>, <<N_INPUT_STEPS>>)

\* line 174 reading one step further on
PredictWindowAhead(s) == Sl(<<s + 1>>, <<N_INPUT_STEPS + s + 1>>)

\* line 174: the steps step:offset handed to predict, offset = N_INPUT_STEPS + step
PredictWindow(s) == Sl(<<s>>, <<N_INPUT_STEPS + s>>)

\* rnn_iterative_forecasting, lines 166-171: training, then the working sequence
IterativeFit ==
    /\ pc = "iterative"
    /\ LET xt == Read(mem, x_train)
           xv == Read(mem, x_valid)
           yt == GetItem(Read(mem, y_train), <<All, Ix(0)>>)
           zeros == Full(<<VALIDATION_BATCH_SIZE, N_STEPS, N_FEATURES>>, 0)
           m1 == [mem EXCEPT !.full_sequence = zeros]
           filled == Store(m1, full_sequence, <<All, InputSteps, All>>,
                           GetItem(xv, <<All, All, All>>))
       IN IF ~FitAccepts(iterative_model, xt, yt) \/ filled.err
          THEN Raise
          ELSE /\ mem' = [m1 EXCEPT ![full_sequence.base] = filled]
               /\ step' = 0
               /\ assigned' = StepsOf(InputSteps)
               /\ pc' = "iter_loop"
               /\ UNCHANGED <<viewVars, plotVars, pred, Y, fitVars, args, result,
                              window, data_out>>

\* lines 172-175, one iteration
IterativeStep ==
    /\ pc = "iter_loop"
    /\ step < N_PREDICTIONS
    /\ LET offset == N_INPUT_STEPS + step
           win == View(full_sequence.base,
                       ComposeAxes(mem[full_sequence.base].shape, full_sequence.axes,
                                   <<All, PredictWindow(step), All>>))
       IN \E out \in Predictions(iterative_model, Read(mem, win).shape) :
              LET stored == Store(mem, full_sequence, <<All, Ix(offset), All>>,
                                  Reshape(out, <<VALIDATION_BATCH_SIZE, N_FEATURES>>))
              IN IF stored.err
                 THEN Raise
                 ELSE /\ mem' = [mem EXCEPT ![full_sequence.base] = stored]
                      /\ window' = win
                      /\ data_out' = out
                      /\ assigned' = assigned \cup StepsOf(Ix(offset))
                      /\ step' = step + 1
                      /\ UNCHANGED <<pc, viewVars, plotVars, pred, Y, fitVars, args, result>>

\* lines 176-177 and lines 322-323; pred holds the values of the view y_pred, and
\* the locals of the loop go out of scope
IterativeReturn ==
    /\ pc = "iter_loop"
    /\ step = N_PREDICTIONS
    /\ LET yv == Read(mem, y_valid)
           y_pred == GetItem(Read(mem, full_sequence),
                             <<All, Sl(<<-N_PREDICTIONS>>, <<>>), All>>)
       IN IF y_pred.err \/ yv.err \/ y_pred.shape # yv.shape
          THEN Raise
          ELSE /\ pred' = y_pred
               /\ printed' = <<"deep rnn iterative forecasting loss: ",
                               MeanSquaredError(yv, y_pred)>>
               /\ window' = NoView
               /\ data_out' = Unset
               /\ assigned' = {}
               /\ pc' = "plot_iterative"
               /\ UNCHANGED <<mem, viewVars, legend, Y, step, fitVars, args, result>>

\* the model of rnn_vector_forecasting (line 196)
vector_model == get_sequence_to_vector_rnn_model(N_PREDICTIONS * N_FEATURES)

\* rnn_vector_forecasting (lines 179-201) and lines 326-328; rebinding pred drops
\* the last reference to the buffer of full_sequence
Vector ==
    /\ pc = "vector"
    /\ LET xt == Read(mem, x_train)
           xv == Read(mem, x_valid)
           yt == Reshape(Read(mem, y_train),
                         <<TRAINING_BATCH_SIZE, N_PREDICTIONS * N_FEATURES>>)
           yv == Reshape(Read(mem, y_valid),
                         <<VALIDATION_BATCH_SIZE, N_PREDICTIONS * N_FEATURES>>)
       IN IF ~FitAccepts(vector_model, xt, yt) \/ ~FitAccepts(vector_model, xv, yv)
          THEN Raise
          ELSE \E y_hat \in Predictions(vector_model, xv.shape) :
                   LET y_pred == Reshape(y_hat, <<VALIDATION_BATCH_SIZE, N_PREDICTIONS,
                                                  N_FEATURES>>)
                   IN IF y_pred.err
                      THEN Raise
                      ELSE /\ model_out' = y_hat
                           /\ history' = [val_loss |-> MeanSquaredError(yv, y_hat)]
                           /\ pred' = y_pred
                           /\ printed' = <<"deep rnn vector forecasting loss: ",
                                           MeanSquaredError(yv, y_hat)>>
                           /\ pc' = "plot_vector"
                           /\ mem' = [mem EXCEPT !.full_sequence = Unset]
                           /\ UNCHANGED <<viewVars, legend, Y, step, args, result, iterVars>>

\* lines 220 / 244 / 264 / 285: y_train = Y[:indices[0]]
SequenceTrainingTargets(Yt) == GetItem(Yt, <<Sl(<<>>, <<indices[1]>>)>>)

\* line 220 taking the first VALIDATION_BATCH_SIZE rows
SequenceValidationTargetsFromStart(Yt) ==
    GetItem(Yt, <<Sl(<<>>, <<VALIDATION_BATCH_SIZE>>)>>)

\* lines 220 / 244 / 264 / 285: y_valid = Y[indices[0]:indices[1]]
SequenceValidationTargets(Yt) == GetItem(Yt, <<Sl(<<indices[1]>>, <<indices[2]>>)>>)

\* lines 225 / 248 / 268 / 293: the prediction of the last input step
LastStepPrediction(y_hat) ==
    GetItem(Reshape(y_hat, <<VALIDATION_BATCH_SIZE, N_INPUT_STEPS, N_PREDICTIONS,
                             N_FEATURES>>),
            <<All, Ix(-1)>>)

\* lines 332 / 339 / 344 / 349: history['val_loss'][-1]
ReportedSequenceLoss(hist) == hist.val_loss

\* the common body of rnn_sequence_forecasting (205-226), rnn_lstm_sequence_forecasting
\* (231-249), rnn_gru_sequence_forecasting (251-269) and cnn_vector_forecasting
\* (272-294), with train_sequence_to_sequence_rnn_model (105-109), and the
\* assignment and print that follow the call
SequenceForecasting(layers, label, next) ==
    \E garbage \in Garbage :
        LET Yt == get_sequence_to_sequence_data(mem.series, garbage)
            xt == Read(mem, x_train)
            xv == Read(mem, x_valid)
            yt == SequenceTrainingTargets(Yt)
            yv == SequenceValidationTargets(Yt)
        IN IF Yt.err \/ ~FitAccepts(layers, xt, yt) \/ ~FitAccepts(layers, xv, yv)
           THEN Raise
           ELSE \E y_hat \in Predictions(layers, xv.shape) :
                    LET y_pred == LastStepPrediction(y_hat)
                        hist == [val_loss |-> MeanSquaredError(yv, y_hat),
                                 val_last_time_step_mse |-> last_time_step_mse(yv, y_hat)]
                    IN IF y_pred.err
                       THEN Raise
                       ELSE /\ Y' = Yt
                            /\ model_out' = y_hat
                            /\ history' = hist
                            /\ pred' = y_pred
                            /\ printed' = <<label, ReportedSequenceLoss(hist)>>
                            /\ pc' = next
                            /\ UNCHANGED <<mem, viewVars, legend, step, args, result, iterVars>>

\* line 331-333
RnnSequence ==
    /\ pc = "sequence"
    /\ SequenceForecasting(
           get_sequence_to_sequence_rnn_model(N_PREDICTIONS * N_FEATURES, "SimpleRNN"),
           "deep rnn sequence forecasting loss: ", "plot_sequence")

\* lines 338-340
Lstm ==
    /\ pc = "lstm"
    /\ SequenceForecasting(
           get_sequence_to_sequence_rnn_model(N_PREDICTIONS * N_FEATURES, "LSTM"),
           "deep rnn lstm sequence forecasting loss: ", "plot_lstm")

\* lines 343-345
Gru ==
    /\ pc = "gru"
    /\ SequenceForecasting(
           get_sequence_to_sequence_rnn_model(N_PREDICTIONS * N_FEATURES, "GRU"),
           "deep rnn gru sequence forecasting loss: ", "plot_gru")

\* lines 348-350
Cnn ==
    /\ pc = "cnn"
    /\ SequenceForecasting(cnn_model, "cnn vector forecasting loss: ", "plot_cnn")

\* Plotter.show (lines 44-46) at line 352
Show ==
    /\ pc = "show"
    /\ pc' = "done"
    /\ UNCHANGED <<mem, viewVars, plotVars, pred, Y, step, fitVars, args, result, iterVars>>

Next ==
    \/ Generate \/ Partition \/ Plot \/ Naive \/ Linear
    \/ IterativeFit \/ IterativeStep \/ IterativeReturn
    \/ Vector \/ RnnSequence \/ Lstm \/ Gru \/ Cnn \/ Show

Spec == Init /\ [][Next]_vars

(***************************************************************************)
(* Properties of the script.                                               *)
(***************************************************************************)
\* the batch rows a view selects
RowsOf(view) ==
    LET total == mem.series.shape[1]
    IN {r \in 0..(total - 1) :
            r >= SliceLo(view.axes[1], total) /\ r < SliceHi(view.axes[1], total)}

\* C3: the naive prediction has, at every validation row r, prediction step k and
\* feature f, the value of x_valid at row r, input step n-1, feature f.
C3_NaiveRepeatsLastInputStep ==
    pc = "plot_naive" =>
        /\ pred.shape = <<VALIDATION_BATCH_SIZE, N_PREDICTIONS, N_FEATURES>>
        /\ \A r \in 0..(VALIDATION_BATCH_SIZE - 1), k \in 0..(N_PREDICTIONS - 1),
              f \in 0..(N_FEATURES - 1) :
               At(pred, <<r, k, f>>) = At(Read(mem, x_valid), <<r, N_INPUT_STEPS - 1, f>>)

\* the naive prediction of a validation set whose last input step differs from
\* its first one and from the targets
C3_Witness ==
    /\ pc = "plot_naive"
    /\ At(pred, <<0, N_PREDICTIONS - 1, 0>>)
           = At(Read(mem, x_valid), <<0, N_INPUT_STEPS - 1, 0>>)
    /\ At(Read(mem, x_valid), <<0, 0, 0>>)
           # At(Read(mem, x_valid), <<0, N_INPUT_STEPS - 1, 0>>)
    /\ printed[2][1] > 0

\* C4: once the series is partitioned, the training, validation and test rows
\* are the ranges [0, i0), [i0, i1), [i1, total) of the two indices; they are
\* pairwise disjoint and cover all INITIAL_BATCH_SIZE rows of the series, with
\* TRAINING_BATCH_SIZE training and VALIDATION_BATCH_SIZE validation rows.
C4_PartitionCoversBatch ==
    pc \notin {"generate", "partition"} =>
        LET total == mem.series.shape[1]
            train == RowsOf(x_train)
            valid == RowsOf(x_valid)
            test == RowsOf(x_test)
        IN /\ total = INITIAL_BATCH_SIZE
           /\ train = 0..(indices[1] - 1) /\ RowsOf(y_train) = train
           /\ valid = indices[1]..(indices[2] - 1) /\ RowsOf(y_valid) = valid
           /\ test = indices[2]..(total - 1) /\ RowsOf(y_test) = test
           /\ train \cap valid = {} /\ train \cap test = {} /\ valid \cap test = {}
           /\ train \cup valid \cup test = 0..(total - 1)
           /\ Cardinality(train) + Cardinality(valid) + Cardinality(test)
                  = INITIAL_BATCH_SIZE
           /\ Cardinality(train) = TRAINING_BATCH_SIZE
           /\ Cardinality(valid) = VALIDATION_BATCH_SIZE

\* the series has been partitioned into three non-empty ranges
C4_Witness ==
    /\ pc = "plot_target"
    /\ RowsOf(x_train) # {} /\ RowsOf(x_valid) # {} /\ RowsOf(x_test) # {}
    /\ RowsOf(y_test) = RowsOf(x_test)

\* C6: no strategy fails, and the prediction each of the eight strategies returns
\* has the shape (VALIDATION_BATCH_SIZE, N_PREDICTIONS, N_FEATURES) of the
\* validation target window.
C6_PredictionHasTargetShape ==
    /\ pc # "error"
    /\ (pc \in PlotPositions \ {"plot_target"}) =>
           /\ ~pred.err
           /\ pred.shape = <<VALIDATION_BATCH_SIZE, N_PREDICTIONS, N_FEATURES>>
           /\ pred.shape = Read(mem, y_valid).shape

\* the last of the eight strategies, the causal CNN, has returned its prediction
C6_Witness ==
    /\ pc = "plot_cnn"
    /\ Len(legend) = 8
    /\ model_out.shape = <<VALIDATION_BATCH_SIZE, N_INPUT_STEPS,
                           N_PREDICTIONS * N_FEATURES>>
    /\ pred.shape = <<VALIDATION_BATCH_SIZE, N_PREDICTIONS, N_FEATURES>>

\* C7: the loss reported for a sequence-to-sequence strategy is the same for
\* every model output that agrees with the actual one at the last input step,
\* whatever it predicts at the earlier input steps.
C7_ReportedLossIgnoresEarlierSteps ==
    pc \in {"plot_sequence", "plot_lstm", "plot_gru", "plot_cnn"} =>
        \A alt \in PredictionsOfShape(model_out.shape) :
            GetItem(alt, <<All, Ix(-1)>>) = GetItem(model_out, <<All, Ix(-1)>>) =>
                printed[2] = MeanSquaredError(SequenceValidationTargets(Y), alt)

\* C8: the legend changes only by one label being added at its end, every plot
\* call adds one, and when show is reached the legend is the nine labels in order.
C8_LegendAppendOnly ==
    /\ [][/\ \/ legend' = legend
             \/ /\ Len(legend') = Len(legend) + 1
                /\ SubSeq(legend', 1, Len(legend)) = legend
          /\ (pc \in PlotPositions /\ pc' \notin {pc, "error"}) =>
                 Len(legend') = Len(legend) + 1]_vars
    /\ [](pc \in {"show", "done"} =>
              legend = <<"target data", "naive prediction", "linear prediction",
                         "iterative prediction", "vector prediction",
                         "sequence prediction", "ltsm sequence prediction",
                         "gru sequence prediction", "cnn sequence prediction">>)

\* show has been called with nine labels in the legend
C8_Witness ==
    /\ pc = "done"
    /\ Len(legend) = 9
    /\ legend[9] = "cnn sequence prediction"

\* C9: once generated, the series keeps every entry in every step of the run,
\* and the views taken from it stay the same slices.
C9_SeriesNeverMutated ==
    [][/\ pc # "generate" => mem'.series = mem.series
       /\ pc \notin {"generate", "partition"} => UNCHANGED viewVars]_vars

\* the iterative strategy has written its predictions into the working sequence
\* and the run has gone on to the end
C9_Witness ==
    /\ pc = "plot_iterative"
    /\ step = N_PREDICTIONS
    /\ \E r \in 0..(VALIDATION_BATCH_SIZE - 1), f \in 0..(N_FEATURES - 1) :
           At(mem.full_sequence, <<r, N_STEPS - 1, f>>) = 1
    /\ \E r \in 0..(VALIDATION_BATCH_SIZE - 1) :
           At(Read(mem, y_valid), <<r, N_PREDICTIONS - 1, 0>>) # 1

\* C11: in the prediction returned by rnn_iterative_forecasting, every validation
\* row and every predicted step has the same value for feature 0 and feature 1.
C11_PredictedFeaturesEqual ==
    pc = "plot_iterative" =>
        \A r \in 0..(VALIDATION_BATCH_SIZE - 1), k \in 0..(N_PREDICTIONS - 1) :
            At(pred, <<r, k, 0>>) = At(pred, <<r, k, 1>>)

\* C12: the inference loop of rnn_iterative_forecasting starts at iteration 0 with
\* exactly the input steps assigned; iteration s (s = 0 .. m-1, one after the
\* other) hands predict the steps [s, s+n) of the working sequence, all of them
\* assigned before, and writes predict's output at step n+s and nowhere else;
\* the function returns after iteration m-1, and what it returns is the steps
\* n .. n+m-1 of the working sequence, in order, all of them written.
C12_IterativeLoopOrder ==
    [][/\ (pc = "iterative" /\ pc' = "iter_loop") =>
              /\ step' = 0
              /\ assigned' = 0..(N_INPUT_STEPS - 1)
       /\ (pc = "iter_loop" /\ pc' = "iter_loop" /\ step' # step) =>
              /\ step \in 0..(N_PREDICTIONS - 1)
              /\ step' = step + 1
              /\ window'.base = "full_sequence"
              /\ StepsOf(window'.axes[2]) = step..(step + N_INPUT_STEPS - 1)
              /\ StepsOf(window'.axes[2]) \subseteq assigned
              /\ assigned' = assigned \cup {N_INPUT_STEPS + step}
              /\ \A r \in 0..(VALIDATION_BATCH_SIZE - 1), t \in 0..(N_STEPS - 1),
                    f \in 0..(N_FEATURES - 1) :
                     At(mem'.full_sequence, <<r, t, f>>)
                         = IF t = N_INPUT_STEPS + step
                           THEN At(data_out', <<r, f>>)
                           ELSE At(mem.full_sequence, <<r, t, f>>)
       /\ (pc = "iter_loop" /\ pc' = "plot_iterative") =>
              /\ step = N_PREDICTIONS
              /\ N_INPUT_STEPS..(N_INPUT_STEPS + N_PREDICTIONS - 1) \subseteq assigned
              /\ pred'.shape = <<VALIDATION_BATCH_SIZE, N_PREDICTIONS, N_FEATURES>>
              /\ \A r \in 0..(VALIDATION_BATCH_SIZE - 1), k \in 0..(N_PREDICTIONS - 1),
                    f \in 0..(N_FEATURES - 1) :
                     At(pred', <<r, k, f>>)
                         = At(mem.full_sequence, <<r, N_INPUT_STEPS + k, f>>)]_vars

\* the last iteration has run on a window made of an input step and written steps,
\* and the written steps hold different values
C12_Witness ==
    /\ pc = "iter_loop"
    /\ step = N_PREDICTIONS
    /\ assigned = 0..(N_STEPS - 1)
    /\ StepsOf(window.axes[2]) = (N_PREDICTIONS - 1)..(N_STEPS - 2)
    /\ At(mem.full_sequence, <<0, N_INPUT_STEPS, 0>>)
           # At(mem.full_sequence, <<0, N_STEPS - 1, 0>>)

\* C13: once a sequence strategy has built its targets, the flattened target
\* reshaped to (batch, n, m, features) and taken at the last input step has
\* series[r, n+k, f] at (r, k, f) for every row r, k in [0, m) and feature f;
\* the j-th training (validation) target row, unflattened the same way, is
\* that window of the series row that the j-th row of x_train (x_valid) is
\* taken from, which is the target window y_train (y_valid).
C13_LastStepTargetIsTargetWindow ==
    pc \in {"plot_sequence", "plot_lstm", "plot_gru", "plot_cnn"} =>
        LET last(T, batch) ==
                GetItem(Reshape(T, <<batch, N_INPUT_STEPS, N_PREDICTIONS, N_FEATURES>>),
                        <<All, Ix(-1)>>)
            whole == last(Y, INITIAL_BATCH_SIZE)
            train == last(SequenceTrainingTargets(Y), TRAINING_BATCH_SIZE)
            valid == LastStepPrediction(SequenceValidationTargets(Y))
            row(view, j) == SliceLo(view.axes[1], INITIAL_BATCH_SIZE) + j
        IN /\ ~whole.err /\ ~train.err /\ ~valid.err
           /\ \A r \in 0..(INITIAL_BATCH_SIZE - 1), k \in 0..(N_PREDICTIONS - 1),
                 f \in 0..(N_FEATURES - 1) :
                  At(whole, <<r, k, f>>) = At(mem.series, <<r, N_INPUT_STEPS + k, f>>)
           /\ \A j \in 0..(TRAINING_BATCH_SIZE - 1), k \in 0..(N_PREDICTIONS - 1),
                 f \in 0..(N_FEATURES - 1) :
                  At(train, <<j, k, f>>)
                      = At(mem.series, <<row(x_train, j), N_INPUT_STEPS + k, f>>)
           /\ \A j \in 0..(VALIDATION_BATCH_SIZE - 1), k \in 0..(N_PREDICTIONS - 1),
                 f \in 0..(N_FEATURES - 1) :
                  At(valid, <<j, k, f>>)
                      = At(mem.series, <<row(x_valid, j), N_INPUT_STEPS + k, f>>)
           /\ train = Read(mem, y_train)
           /\ valid = Read(mem, y_valid)

\* a sequence strategy has trained on targets whose validation rows differ from
\* the first rows of the series and whose target window varies over its steps
C13_Witness ==
    /\ pc = "plot_sequence"
    /\ Y.shape = <<INITIAL_BATCH_SIZE, N_INPUT_STEPS, N_PREDICTIONS * N_FEATURES>>
    /\ \E k \in 0..(N_PREDICTIONS - 1) :
           At(mem.series, <<0, N_INPUT_STEPS + k, 0>>)
               # At(Read(mem, y_valid), <<0, k, 0>>)
    /\ At(Read(mem, y_valid), <<0, 0, 0>>)
           # At(Read(mem, y_valid), <<0, N_PREDICTIONS - 1, 0>>)

====
